---- MODULE Spec2Model ----
(***************************************************************************)
(* A model of scspkg's Package (src/scspkg/pkg.py): the in-memory          *)
(* sections of one package, its persisted document and static modulefile,  *)
(* and the ScriptLoader/BashLoader load/unload engine run against the      *)
(* environment of the invoking shell.                                      *)
(*                                                                         *)
(* Strings on which the code does string work (environment values, path    *)
(* fragments) are sequences of one-character strings; names (variable      *)
(* names, dependency names, doc keys) are atomic.  A Python dict is a      *)
(* sequence of [k, v] entries in insertion order.  A file is <<>> when it  *)
(* does not exist and <<content>> when it does.                            *)
(***************************************************************************)
EXTENDS Integers, Sequences, FiniteSets, TLC

VARIABLES
    module_type,   \* ScspkgManager.module_type: "TCL", "BASH" or "NONE"
    sections,      \* Package.sections
    schema_file,   \* the document at Package.module_schema_path
    module_file,   \* the static modulefile at Package.module_path
    shell_env,     \* environment of the invoking shell
    os_environ,    \* os.environ of the engine's process when its call ended
    script,        \* lines returned by the last module_load / module_unload
    call,          \* the last operation
    outcome,       \* how it ended: "returned", "exit" or "raised"
    phase,         \* progress through load, apply, unload, apply
    env0           \* shell_env when the load of the current cycle began

vars == <<module_type, sections, schema_file, module_file, shell_env,
          os_environ, script, call, outcome, phase, env0>>

\* ---------------------------------------------------------------- bounds

\* Longest fragment list prepend_env may build for one variable.
MaxFrags == 2
\* Longest value a variable of the invoking shell starts with.
MaxValLen == 2

\* ---------------------------------------------------------------- strings

\* ''.join / sep.join over a list of strings
RECURSIVE str_join(_, _)
str_join(sep, values) ==
    IF values = <<>> THEN <<>>
    ELSE IF Len(values) = 1 THEN values[1]
    ELSE values[1] \o sep \o str_join(sep, Tail(values))

\* str.replace(old, new): every non-overlapping occurrence, left to right
RECURSIVE str_replace(_, _, _)
str_replace(s, old, new) ==
    IF old = <<>>
    THEN IF s = <<>> THEN new
         ELSE new \o <<s[1]>> \o
              (IF Len(s) = 1 THEN new ELSE str_replace(Tail(s), old, new))
    ELSE IF Len(s) < Len(old) THEN s
    ELSE IF SubSeq(s, 1, Len(old)) = old
         THEN new \o str_replace(SubSeq(s, Len(old) + 1, Len(s)), old, new)
         ELSE <<s[1]>> \o str_replace(Tail(s), old, new)

\* str.lstrip(c) / str.rstrip(c) / str.strip(c) for a single character c
RECURSIVE str_lstrip(_, _)
str_lstrip(s, c) ==
    IF s # <<>> /\ s[1] = c THEN str_lstrip(Tail(s), c) ELSE s

RECURSIVE str_rstrip(_, _)
str_rstrip(s, c) ==
    IF s # <<>> /\ s[Len(s)] = c
    THEN str_rstrip(SubSeq(s, 1, Len(s) - 1), c) ELSE s

str_strip(s, c) == str_rstrip(str_lstrip(s, c), c)

\* whether sub occurs in s (Python's `sub in s`)
Contains(s, sub) ==
    \E i \in 1..(Len(s) - Len(sub) + 1) : SubSeq(s, i, i + Len(sub) - 1) = sub

\* os.path.join of a directory and one component
path_join(dir, comp) ==
    IF dir # <<>> /\ dir[Len(dir)] = "/" THEN dir \o comp
    ELSE dir \o <<"/">> \o comp

\* every sequence over S of length at most n
RECURSIVE SeqsUpTo(_, _)
SeqsUpTo(S, n) ==
    IF n = 0 THEN {<<>>}
    ELSE LET shorter == SeqsUpTo(S, n - 1)
         IN  shorter \cup {Append(s, x) : s \in shorter, x \in S}

\* ---------------------------------------------------------------- dicts

HasKey(d, key) == \E i \in 1..Len(d) : d[i].k = key

Get(d, key) == d[CHOOSE i \in 1..Len(d) : d[i].k = key].v

\* d[key] = val: an existing key keeps its place, a new key goes last
Put(d, key, val) ==
    IF HasKey(d, key)
    THEN [i \in 1..Len(d) |->
            IF d[i].k = key THEN [k |-> key, v |-> val] ELSE d[i]]
    ELSE Append(d, [k |-> key, v |-> val])

\* del d[key]
Del(d, key) ==
    LET keep(e) == e.k # key IN SelectSeq(d, keep)

Keys(d) == [i \in 1..Len(d) |-> d[i].k]

KeySet(d) == {d[i].k : i \in 1..Len(d)}

\* ---------------------------------------------------------------- package

name == "p"

mod_load_name == "SCSPKG_p_LOADED"

pkg_root == <<"/", "p">>

BinDir == path_join(pkg_root, <<"b", "i", "n">>)
SbinDir == path_join(pkg_root, <<"s", "b", "i", "n">>)
LibDir == path_join(pkg_root, <<"l", "i", "b">>)
Lib64Dir == path_join(pkg_root, <<"l", "i", "b", "6", "4">>)
CmakeDir == path_join(pkg_root, <<"c", "m", "a", "k", "e">>)
PkgconfigDir == path_join(LibDir, <<"p", "k", "g", "c", "o", "n", "f", "i", "g">>)
Pkgconfig64Dir == path_join(Lib64Dir, <<"p", "k", "g", "c", "o", "n", "f", "i", "g">>)

\* the string 'None'
NoneStr == <<"N", "o", "n", "e">>

\* Package.reset_config: the skeleton sections
reset_config ==
    [doc |-> << [k |-> "Name", v |-> <<name>>],
                [k |-> "Version", v |-> NoneStr],
                [k |-> "doc", v |-> NoneStr] >>,
     deps |-> <<>>,
     setenvs |-> <<>>,
     prepends |-> <<
        [k |-> "PATH", v |-> <<BinDir, SbinDir>>],
        [k |-> "LD_LIBRARY_PATH", v |-> <<LibDir, Lib64Dir>>],
        [k |-> "LIBRARY_PATH", v |-> <<LibDir, Lib64Dir>>],
        [k |-> "INCLUDE", v |-> <<>>],
        [k |-> "CPATH", v |-> <<>>],
        [k |-> "CMAKE_PREFIX_PATH", v |-> <<CmakeDir>>],
        [k |-> "PYTHONPATH", v |-> <<BinDir, LibDir, Lib64Dir>>],
        [k |-> "PKG_CONFIG_PATH", v |-> <<PkgconfigDir, Pkgconfig64Dir>>],
        [k |-> "CFLAGS", v |-> <<>>],
        [k |-> "LDFLAGS", v |-> <<>>] >>]

\* ---------------------------------------------------------------- files

Line(cmd, key, val) == [cmd |-> cmd, key |-> key, val |-> val]

\* the lines of the static modulefile, one per entry of a dict
RECURSIVE DictLines(_, _)
DictLines(cmd, d) ==
    IF d = <<>> THEN <<>>
    ELSE <<Line(cmd, d[1].k, d[1].v)>> \o DictLines(cmd, Tail(d))

RECURSIVE DepLines(_, _)
DepLines(cmd, d) ==
    IF d = <<>> THEN <<>>
    ELSE <<Line(cmd, d[1].k, <<>>)>> \o DepLines(cmd, Tail(d))

RECURSIVE FragLines(_, _)
FragLines(env, values) ==
    IF values = <<>> THEN <<>>
    ELSE <<Line("prepend-path", env, values[1])>> \o FragLines(env, Tail(values))

RECURSIVE PrependLines(_)
PrependLines(d) ==
    IF d = <<>> THEN <<>>
    ELSE FragLines(d[1].k, d[1].v) \o PrependLines(Tail(d))

\* Package._save_as_tcl: the text written to module_path
save_as_tcl(sec) ==
    <<Line("#%Module1.0", "", <<>>)>>
    \o DictLines("module-whatis", sec.doc)
    \o DepLines("module load", sec.deps)
    \o DictLines("setenv", sec.setenvs)
    \o PrependLines(sec.prepends)

\* Package._save_as_bash: the text written to module_path
save_as_bash(sec) ==
    <<Line("#!/bin/bash", "", <<>>)>>
    \o DictLines("#", sec.doc)
    \o DepLines("$(scspkg module load", sec.deps)
    \o <<Line("$(scspkg module load", "", <<>>)>>

\* The ways a save can go: both writes succeed, the document write raises,
\* or the modulefile write raises.
SaveFaults == {"none", "document", "modulefile"}

\* Package.save: the document, then the modulefile of the configured type.
\* A write that raises leaves its file as it was and ends the call.
save(sec, mtype, fault, schema, modfile) ==
    IF fault = "document"
    THEN [schema_file |-> schema, module_file |-> modfile, outcome |-> "raised"]
    ELSE IF mtype \notin {"TCL", "BASH"}
    THEN [schema_file |-> <<sec>>, module_file |-> modfile, outcome |-> "returned"]
    ELSE IF fault = "modulefile"
    THEN [schema_file |-> <<sec>>, module_file |-> modfile, outcome |-> "raised"]
    ELSE [schema_file |-> <<sec>>,
          module_file |-> IF mtype = "TCL" THEN <<save_as_tcl(sec)>>
                          ELSE <<save_as_bash(sec)>>,
          outcome |-> "returned"]

\* a load that leaves the sections as they are
load_nothing(sec, schema) == sec

\* Package.load: the persisted document replaces the sections when it exists
load(sec, schema) == IF schema # <<>> THEN schema[1] ELSE sec

\* Package.__init__: the skeleton, then load
Package_init(schema) == load(reset_config, schema)

\* ---------------------------------------------------------------- accessors

\* a str argument becomes a one-element list
AsList(arg) == IF "str" \in DOMAIN arg THEN <<arg.str>> ELSE arg.list

\* a set_env that leaves the prepends entry in place
set_env_keeps_prepend(sec, env_name, env_data) ==
    [sec EXCEPT !.setenvs = Put(@, env_name, env_data)]

\* Package.set_env
set_env(sec, env_name, env_data) ==
    LET s1 == [sec EXCEPT !.setenvs = Put(@, env_name, env_data)]
    IN  IF HasKey(s1.prepends, env_name)
        THEN [s1 EXCEPT !.prepends = Del(@, env_name)]
        ELSE s1

\* prepend_env putting the new fragments before the existing ones
prepend_env_at_head(sec, env_name, env_data) ==
    LET data == AsList(env_data)
        s1 == IF ~HasKey(sec.prepends, env_name)
              THEN [sec EXCEPT !.prepends = Put(@, env_name, <<>>)]
              ELSE sec
    IN  [s1 EXCEPT !.prepends = Put(@, env_name, data \o Get(@, env_name))]

\* Package.prepend_env
prepend_env(sec, env_name, env_data) ==
    LET data == AsList(env_data)
        s1 == IF ~HasKey(sec.prepends, env_name)
              THEN [sec EXCEPT !.prepends = Put(@, env_name, <<>>)]
              ELSE sec
    IN  [s1 EXCEPT !.prepends = Put(@, env_name, Get(@, env_name) \o data)]

\* Package.append_env: sections['appends'] is read with no test that the
\* section exists, so a sections without it raises KeyError; where it
\* exists, the new fragments are put before the existing ones
append_env(sec, env_name, env_data) ==
    LET data == AsList(env_data)
    IN  IF "appends" \notin DOMAIN sec
        THEN [raised |-> TRUE, sections |-> sec]
        ELSE LET s1 == IF ~HasKey(sec.appends, env_name)
                       THEN [sec EXCEPT !.appends = Put(@, env_name, <<>>)]
                       ELSE sec
             IN  [raised |-> FALSE,
                  sections |-> [s1 EXCEPT !.appends =
                      Put(@, env_name, data \o Get(@, env_name))]]

\* Package.rm_env
rm_env(sec, env_name) ==
    LET s1 == IF HasKey(sec.setenvs, env_name)
              THEN [sec EXCEPT !.setenvs = Del(@, env_name)]
              ELSE sec
    IN  IF HasKey(s1.prepends, env_name)
        THEN [s1 EXCEPT !.prepends = Del(@, env_name)]
        ELSE s1

\* a remove that takes every occurrence of x
list_remove_all(l, x) ==
    LET keep(e) == e # x IN SelectSeq(l, keep)

\* list.remove(x): the first occurrence of x goes
list_remove(l, x) ==
    LET i == CHOOSE j \in 1..Len(l) :
                 l[j] = x /\ \A h \in 1..(j - 1) : l[h] # x
    IN  SubSeq(l, 1, i - 1) \o SubSeq(l, i + 1, Len(l))

InList(l, x) == \E i \in 1..Len(l) : l[i] = x

\* Package.pop_prepend: the sections, and whether a message was printed
pop_prepend(sec, env_name, env_data) ==
    IF HasKey(sec.prepends, env_name)
    THEN LET prepends == Get(sec.prepends, env_name)
         IN  IF InList(prepends, env_data)
             THEN [sections |-> [sec EXCEPT !.prepends =
                        Put(@, env_name, list_remove(prepends, env_data))],
                   printed |-> FALSE]
             ELSE [sections |-> sec, printed |-> TRUE]
    ELSE [sections |-> sec, printed |-> TRUE]

\* an add_deps that moves a name already present to the end
RECURSIVE add_deps_loop_reinsert(_, _)
add_deps_loop_reinsert(deps, todo) ==
    IF todo = <<>> THEN deps
    ELSE add_deps_loop_reinsert(Put(Del(deps, todo[1]), todo[1], TRUE), Tail(todo))

\* Package.add_deps
RECURSIVE add_deps_loop(_, _)
add_deps_loop(deps, todo) ==
    IF todo = <<>> THEN deps
    ELSE add_deps_loop(Put(deps, todo[1], TRUE), Tail(todo))

add_deps(sec, deps) == [sec EXCEPT !.deps = add_deps_loop(@, AsList(deps))]

\* Package.pop_deps, up to its closing save
RECURSIVE pop_deps_loop(_, _)
pop_deps_loop(deps, todo) ==
    IF todo = <<>> THEN deps
    ELSE pop_deps_loop(IF HasKey(deps, todo[1]) THEN Del(deps, todo[1]) ELSE deps,
                       Tail(todo))

pop_deps(sec, deps) == [sec EXCEPT !.deps = pop_deps_loop(@, AsList(deps))]

\* Package.ls_deps: the names printed, in order
ls_deps(sec) == Keys(sec.deps)

\* ---------------------------------------------------------------- engine

\* An environment is a function from the names that are set to their values.
EmptyEnv == [n \in {} |-> <<>>]

EnvSet(environ, n, val) ==
    [x \in DOMAIN environ \cup {n} |-> IF x = n THEN val ELSE environ[x]]

EnvUnset(environ, n) == [x \in DOMAIN environ \ {n} |-> environ[x]]

\* BashLoader.set_env
Bash_set_env(env_name, env_data) == Line("export", env_name, env_data)

\* BashLoader.unset_env
Bash_unset_env(env_name) == Line("unset", env_name, <<>>)

\* BashLoader.prepend_env: os.environ[env_name] is read before the test of
\* `env_name in os.environ`, so an absent variable raises KeyError
Bash_prepend_env(environ, env_name, values) ==
    LET path_str == str_join(<<":">>, values)
    IN  IF env_name \notin DOMAIN environ
        THEN [raised |-> TRUE, line |-> Line("export", env_name, <<>>)]
        ELSE LET env_val == environ[env_name]
             IN  IF env_name \in DOMAIN environ
                 THEN [raised |-> FALSE,
                       line |-> Line("export", env_name,
                                     path_str \o <<":">> \o env_val)]
                 ELSE [raised |-> FALSE,
                       line |-> Line("export", env_name, path_str)]

\* ScriptLoader.is_loaded: os.environ.get(mod_load_name) is truthy
is_loaded(environ) ==
    /\ mod_load_name \in DOMAIN environ
    /\ environ[mod_load_name] # <<>>

\* module_load's loop over setenvs
RECURSIVE load_setenvs(_)
load_setenvs(d) ==
    IF d = <<>> THEN <<>>
    ELSE <<Bash_set_env(d[1].k, d[1].v)>> \o load_setenvs(Tail(d))

\* module_load's loop over prepends: the lines, or raised
RECURSIVE load_prepends(_, _)
load_prepends(environ, d) ==
    IF d = <<>> THEN [raised |-> FALSE, lines |-> <<>>]
    ELSE IF d[1].v = <<>> THEN load_prepends(environ, Tail(d))
    ELSE LET r == Bash_prepend_env(environ, d[1].k, d[1].v)
             rest == load_prepends(environ, Tail(d))
         IN  IF r.raised \/ rest.raised
             THEN [raised |-> TRUE, lines |-> <<>>]
             ELSE [raised |-> FALSE, lines |-> <<r.line>> \o rest.lines]

\* a module_load that marks the module as loaded before the other lines
module_load_flag_first(environ, sec) ==
    IF is_loaded(environ)
    THEN [outcome |-> "exit", script |-> <<>>, environ |-> environ]
    ELSE LET p == load_prepends(environ, sec.prepends)
         IN  IF p.raised
             THEN [outcome |-> "raised", script |-> <<>>, environ |-> environ]
             ELSE [outcome |-> "returned",
                   script |-> <<Bash_set_env(mod_load_name, <<"1">>)>>
                              \o load_setenvs(sec.setenvs) \o p.lines,
                   environ |-> environ]

\* module_load without its check of is_loaded
module_load_unguarded(environ, sec) ==
    LET p == load_prepends(environ, sec.prepends)
    IN  IF p.raised
        THEN [outcome |-> "raised", script |-> <<>>, environ |-> environ]
        ELSE [outcome |-> "returned",
              script |-> load_setenvs(sec.setenvs) \o p.lines
                         \o <<Bash_set_env(mod_load_name, <<"1">>)>>,
              environ |-> environ]

\* ScriptLoader.module_load
module_load(environ, sec) ==
    IF is_loaded(environ)
    THEN [outcome |-> "exit", script |-> <<>>, environ |-> environ]
    ELSE LET p == load_prepends(environ, sec.prepends)
         IN  IF p.raised
             THEN [outcome |-> "raised", script |-> <<>>, environ |-> environ]
             ELSE [outcome |-> "returned",
                   script |-> load_setenvs(sec.setenvs) \o p.lines
                              \o <<Bash_set_env(mod_load_name, <<"1">>)>>,
                   environ |-> environ]

\* module_unload's loop over setenvs
RECURSIVE unload_setenvs(_)
unload_setenvs(d) ==
    IF d = <<>> THEN <<>>
    ELSE <<Bash_unset_env(d[1].k)>> \o unload_setenvs(Tail(d))

\* the value without the strip of the separator
unload_value_unstripped(env_val, path_str) ==
    str_replace(env_val, path_str, <<>>)

\* the value module_unload gives a prepended variable
unload_value(env_val, path_str) ==
    str_strip(str_replace(env_val, path_str, <<>>), ":")

\* module_unload's loop over prepends: os.environ is assigned as it goes
RECURSIVE unload_prepends(_, _)
unload_prepends(environ, d) ==
    IF d = <<>> THEN [environ |-> environ, lines |-> <<>>]
    ELSE IF d[1].v # <<>> /\ d[1].k \in DOMAIN environ
    THEN LET path_str == str_join(<<":">>, d[1].v)
             e1 == EnvSet(environ, d[1].k,
                          unload_value(environ[d[1].k], path_str))
             rest == unload_prepends(e1, Tail(d))
         IN  [environ |-> rest.environ,
              lines |-> <<Bash_set_env(d[1].k, e1[d[1].k])>> \o rest.lines]
    ELSE unload_prepends(environ, Tail(d))

\* ScriptLoader.module_unload: the unset of the flag is built and dropped
module_unload(environ, sec) ==
    IF ~is_loaded(environ)
    THEN [outcome |-> "exit", script |-> <<>>, environ |-> environ]
    ELSE LET p == unload_prepends(environ, sec.prepends)
             dropped == Bash_unset_env(mod_load_name)
         IN  [outcome |-> "returned",
              script |-> unload_setenvs(sec.setenvs) \o p.lines,
              environ |-> p.environ]

\* what Package.get_script_loader prints
get_script_loader_printed(mtype) ==
    IF mtype = "TCL" THEN "Use \"module load instead\" of \"scspkg module load\""
    ELSE IF mtype = "BASH" THEN ""
    ELSE "Error: Unknown module type"

\* a get_script_loader that hands out the BashLoader for every dialect
get_script_loader_any(mtype) == "BashLoader"

\* Package.get_script_loader
get_script_loader(mtype) ==
    IF mtype = "TCL" THEN "None"
    ELSE IF mtype = "BASH" THEN "BashLoader"
    ELSE "None"

\* Package.module_load
Package_module_load(mtype, environ, sec) ==
    IF get_script_loader(mtype) = "None"
    THEN [outcome |-> "none", script |-> <<>>, environ |-> environ]
    ELSE module_load(environ, sec)

\* Package.module_unload
Package_module_unload(mtype, environ, sec) ==
    IF get_script_loader(mtype) = "None"
    THEN [outcome |-> "none", script |-> <<>>, environ |-> environ]
    ELSE module_unload(environ, sec)

\* the invoking shell evaluating the emitted lines, in order
RECURSIVE eval_script(_, _)
eval_script(environ, lines) ==
    IF lines = <<>> THEN environ
    ELSE eval_script(IF lines[1].cmd = "export"
                     THEN EnvSet(environ, lines[1].key, lines[1].val)
                     ELSE EnvUnset(environ, lines[1].key),
                     Tail(lines))

\* ---------------------------------------------------------------- inputs

\* variable names the accessor operations are called with
EnvNames == {"FOO"}

\* path fragments: non-empty, free of the separator
Frags == {<<"a">>, <<"b">>}

\* values given to set_env
EnvValues == {<<"v">>, <<"w">>}

\* a str or a list argument of prepend_env
PrependArgs ==
    {[str |-> f] : f \in Frags} \cup {[list |-> <<>>], [list |-> <<<<"a">>, <<"b">>>>]}

DepNames == {"d1", "d2"}

\* a str or a list argument of add_deps / pop_deps
DepArgs == {[str |-> d] : d \in DepNames} \cup {[list |-> <<"d1", "d2">>]}

ModuleTypes == {"TCL", "BASH", "NONE"}

\* ---------------------------------------------------------------- actions

\* an accessor call that returns: only the sections change
Accessor(op, sec) ==
    /\ sections' = sec
    /\ call' = op
    /\ outcome' = "returned"
    /\ phase' = 0
    /\ UNCHANGED <<module_type, schema_file, module_file, shell_env,
                   os_environ, script, env0>>

SetEnv(env_name, env_data) ==
    Accessor("set_env", set_env(sections, env_name, env_data))

PrependEnv(env_name, env_data) ==
    /\ (IF HasKey(sections.prepends, env_name)
        THEN Len(Get(sections.prepends, env_name)) ELSE 0)
         + Len(AsList(env_data)) <= MaxFrags
    /\ Accessor("prepend_env", prepend_env(sections, env_name, env_data))

AppendEnv(env_name, env_data) ==
    LET r == append_env(sections, env_name, env_data)
    IN  /\ sections' = r.sections
        /\ call' = "append_env"
        /\ outcome' = IF r.raised THEN "raised" ELSE "returned"
        /\ phase' = 0
        /\ UNCHANGED <<module_type, schema_file, module_file, shell_env,
                       os_environ, script, env0>>

RmEnv(env_name) ==
    Accessor("rm_env", rm_env(sections, env_name))

PopPrepend(env_name, env_data) ==
    LET r == pop_prepend(sections, env_name, env_data)
    IN  Accessor(IF r.printed THEN "pop_prepend: printed" ELSE "pop_prepend",
                 r.sections)

AddDeps(deps) ==
    Accessor("add_deps", add_deps(sections, deps))

\* Package.pop_deps: the deletions, then save
PopDeps(deps, fault) ==
    LET sec == pop_deps(sections, deps)
        r == save(sec, module_type, fault, schema_file, module_file)
    IN  /\ sections' = sec
        /\ schema_file' = r.schema_file
        /\ module_file' = r.module_file
        /\ call' = "pop_deps"
        /\ outcome' = r.outcome
        /\ phase' = 0
        /\ UNCHANGED <<module_type, shell_env, os_environ, script, env0>>

\* ---------------------------------------------------------------- Spec

\* A package constructed where nothing is persisted: the default skeleton.
Init ==
    /\ module_type = "TCL"
    /\ schema_file = <<>>
    /\ module_file = <<>>
    /\ sections = Package_init(schema_file)
    /\ shell_env = EmptyEnv
    /\ os_environ = EmptyEnv
    /\ script = <<>>
    /\ call = "__init__"
    /\ outcome = "returned"
    /\ phase = 0
    /\ env0 = EmptyEnv

\* The accessor operations, in any order.
Next ==
    \/ \E n \in EnvNames, v \in EnvValues : SetEnv(n, v)
    \/ \E n \in EnvNames, a \in PrependArgs : PrependEnv(n, a)
    \/ \E n \in EnvNames, f \in Frags : AppendEnv(n, [str |-> f])
    \/ \E n \in EnvNames : RmEnv(n)
    \/ \E n \in EnvNames, f \in Frags : PopPrepend(n, f)
    \/ \E d \in DepArgs : AddDeps(d)
    \/ \E d \in DepArgs : PopDeps(d, "none")

Spec == Init /\ [][Next]_vars

\* ---------------------------------------------------------------- SpecEngine

\* One invocation of `module load`: a process that inherits the invoking
\* shell's environment runs Package.module_load and returns the script.
ModuleLoad ==
    LET r == Package_module_load(module_type, shell_env, sections)
    IN  /\ os_environ' = r.environ
        /\ script' = r.script
        /\ call' = "module_load"
        /\ outcome' = r.outcome
        /\ phase' = IF r.outcome = "returned" THEN 1 ELSE 0
        /\ env0' = IF r.outcome = "returned" THEN shell_env ELSE env0
        /\ UNCHANGED <<module_type, sections, schema_file, module_file, shell_env>>

\* One invocation of `module unload`.
ModuleUnload ==
    LET r == Package_module_unload(module_type, shell_env, sections)
    IN  /\ os_environ' = r.environ
        /\ script' = r.script
        /\ call' = "module_unload"
        /\ outcome' = r.outcome
        /\ phase' = IF r.outcome = "returned" /\ phase = 2 THEN 3 ELSE 0
        /\ UNCHANGED <<module_type, sections, schema_file, module_file,
                       shell_env, env0>>

\* The invoking shell evaluates the script the last call returned.
ApplyScript ==
    /\ call \in {"module_load", "module_unload"}
    /\ outcome = "returned"
    /\ shell_env' = eval_script(shell_env, script)
    /\ call' = "apply"
    /\ phase' = IF phase \in {1, 3} THEN phase + 1 ELSE 0
    /\ UNCHANGED <<module_type, sections, schema_file, module_file,
                   os_environ, script, outcome, env0>>

\* sections the accessor operations build from the skeleton
EngineSections ==
    LET bases == {reset_config,
                  set_env(reset_config, "FOO", <<"v">>),
                  set_env(reset_config, "BAR", <<"v">>)}
    IN  bases \cup {prepend_env(b, "FOO", [list |-> l]) :
                        b \in bases, l \in SeqsUpTo(Frags, MaxFrags)}

\* the characters a value of the invoking shell is made of
ValueChars == {"a", ":"}

\* every variable of the skeleton set, as in a login shell
BaseEnv == [n \in KeySet(reset_config.prepends) |-> <<"u">>]

\* the environments the invoking shell starts with
StartEnvs ==
    LET withFoo == {BaseEnv} \cup
                   {EnvSet(BaseEnv, "FOO", val) :
                        val \in SeqsUpTo(ValueChars, MaxValLen)}
    IN  withFoo \cup {EnvSet(e, mod_load_name, flag) :
                          e \in withFoo, flag \in {<<>>, <<"1">>}}

InitEngine ==
    /\ module_type \in ModuleTypes
    /\ schema_file = <<>>
    /\ module_file = <<>>
    /\ sections \in EngineSections
    /\ shell_env \in StartEnvs
    /\ os_environ = shell_env
    /\ script = <<>>
    /\ call = "__init__"
    /\ outcome = "returned"
    /\ phase = 0
    /\ env0 = shell_env

NextEngine ==
    \/ ModuleLoad
    \/ ModuleUnload
    \/ ApplyScript

SpecEngine == InitEngine /\ [][NextEngine]_vars

\* ---------------------------------------------------------------- SpecStore

\* Package(name): the skeleton, then the persisted document if there is one
NewPackage ==
    /\ sections' = Package_init(schema_file)
    /\ call' = "__init__"
    /\ outcome' = "returned"
    /\ phase' = 0
    /\ UNCHANGED <<module_type, schema_file, module_file, shell_env,
                   os_environ, script, env0>>

\* a call that ends in Package.save
Saving(op, fault) ==
    LET r == save(sections, module_type, fault, schema_file, module_file)
    IN  /\ schema_file' = r.schema_file
        /\ module_file' = r.module_file
        /\ call' = op
        /\ outcome' = r.outcome
        /\ phase' = 0
        /\ UNCHANGED <<module_type, sections, shell_env, os_environ, script, env0>>

\* Package.save
Save(fault) == Saving("save", fault)

\* Package.create: the directories, then save
Create(fault) == Saving("create", fault)

\* a destroy that removes the modulefile and leaves the package root
Destroy_keeps_root ==
    /\ schema_file' = schema_file
    /\ module_file' = <<>>
    /\ call' = "destroy"
    /\ outcome' = "returned"
    /\ phase' = 0
    /\ UNCHANGED <<module_type, sections, shell_env, os_environ, script, env0>>

\* Package.destroy: the package root (with the document) and the modulefile
Destroy ==
    /\ schema_file' = <<>>
    /\ module_file' = <<>>
    /\ call' = "destroy"
    /\ outcome' = "returned"
    /\ phase' = 0
    /\ UNCHANGED <<module_type, sections, shell_env, os_environ, script, env0>>

InitStore ==
    /\ module_type \in {"TCL", "BASH"}
    /\ schema_file = <<>>
    /\ module_file = <<>>
    /\ sections = Package_init(schema_file)
    /\ shell_env = EmptyEnv
    /\ os_environ = EmptyEnv
    /\ script = <<>>
    /\ call = "__init__"
    /\ outcome = "returned"
    /\ phase = 0
    /\ env0 = EmptyEnv

NextStore ==
    \/ NewPackage
    \/ \E f \in SaveFaults : Save(f)
    \/ \E f \in SaveFaults : Create(f)
    \/ Destroy
    \/ SetEnv("FOO", <<"v">>)
    \/ PrependEnv("FOO", [str |-> <<"a">>])
    \/ AddDeps([str |-> "d1"])
    \/ \E f \in SaveFaults : PopDeps([str |-> "d1"], f)

SpecStore == InitStore /\ [][NextStore]_vars

\* ---------------------------------------------------------------- claims

ExportsOf(lines, env) ==
    LET hit(l) == l.cmd = "export" /\ l.key = env IN SelectSeq(lines, hit)

PrependPathsOf(lines, env) ==
    LET hit(l) == l.cmd = "prepend-path" /\ l.key = env IN SelectSeq(lines, hit)

HasPrefix(s, pre) == Len(s) >= Len(pre) /\ SubSeq(s, 1, Len(pre)) = pre

\* Python's == on two dicts: the same keys with the same values
DictEq(d1, d2) ==
    /\ KeySet(d1) = KeySet(d2)
    /\ \A key \in KeySet(d1) : Get(d1, key) = Get(d2, key)

SectionsEq(s1, s2) ==
    /\ DictEq(s1.doc, s2.doc)
    /\ DictEq(s1.deps, s2.deps)
    /\ DictEq(s1.setenvs, s2.setenvs)
    /\ DictEq(s1.prepends, s2.prepends)

SaveCalls == {"save", "create", "pop_deps"}

C2_UnloadUnsetsFlag ==
    /\ (call = "module_unload" /\ outcome = "returned") =>
          /\ script # <<>>
          /\ script[Len(script)] = Bash_unset_env(mod_load_name)
    /\ phase = 4 =>
          /\ mod_load_name \notin DOMAIN shell_env
          /\ ~is_loaded(shell_env)

\* C3: in every state the accessor operations reach from the skeleton, no
\* variable name is a key of both setenvs and prepends.
C3_SetenvsPrependsDisjoint ==
    KeySet(sections.setenvs) \cap KeySet(sections.prepends) = {}

\* C4: after load, apply, unload, apply, every variable with a non-empty
\* prepends entry that was set before the load has the value it had then.
C4_LoadUnloadReversible ==
    phase = 4 =>
        \A i \in 1..Len(sections.prepends) :
            LET x == sections.prepends[i].k
            IN  (sections.prepends[i].v # <<>> /\ x \in DOMAIN env0) =>
                    /\ x \in DOMAIN shell_env
                    /\ shell_env[x] = env0[x]

\* the remainder R of variable i of prepends, when its runtime value is the
\* joined fragments, the separator, then R
C5_Remainder(i) ==
    LET x == sections.prepends[i].k
        J == str_join(<<":">>, sections.prepends[i].v)
    IN  SubSeq(shell_env[x], Len(J) + 2, Len(shell_env[x]))

\* the case of C5: a non-empty entry whose runtime value is join(F) ':' R,
\* R free of the joined string and not beginning or ending with ':'
C5_Case(i) ==
    LET x == sections.prepends[i].k
        J == str_join(<<":">>, sections.prepends[i].v)
        R == C5_Remainder(i)
    IN  /\ sections.prepends[i].v # <<>>
        /\ x \in DOMAIN shell_env
        /\ HasPrefix(shell_env[x], J \o <<":">>)
        /\ ~Contains(R, J)
        /\ R = <<>> \/ (R[1] # ":" /\ R[Len(R)] # ":")

\* C5: a module_unload of a loaded package emits, for every prepended
\* variable whose runtime value is join(F) ':' R as above, exactly one
\* reassignment line, and its value is R with no separator around it
\* (the fragments being path fragments: non-empty, with no ':' in them).
C5_UnloadEmitsRemainder ==
    (call = "module_unload" /\ outcome = "returned") =>
        \A i \in 1..Len(sections.prepends) :
            C5_Case(i) =>
                ExportsOf(script, sections.prepends[i].k)
                    = <<Bash_set_env(sections.prepends[i].k, C5_Remainder(i))>>

\* C5's case has happened: an unload returned with a prepended FOO whose
\* runtime value was its joined fragments, ':' and a non-empty remainder.
C5_Witness ==
    /\ call = "module_unload" /\ outcome = "returned"
    /\ \E i \in 1..Len(sections.prepends) :
          /\ sections.prepends[i].k = "FOO"
          /\ C5_Case(i)
          /\ C5_Remainder(i) # <<>>
          /\ Len(sections.prepends[i].v) = 2

\* C6: a module_load of an unloaded package returns normally with one
\* prepend line per non-empty prepends entry: fragments, ':' and the value
\* when the variable is set, the fragments alone when it is not.
C6_LoadPrependsWhetherOrNotSet ==
    (module_type = "BASH" /\ call = "module_load" /\ ~is_loaded(shell_env)) =>
        /\ outcome = "returned"
        /\ \A i \in 1..Len(sections.prepends) :
              LET x == sections.prepends[i].k
                  J == str_join(<<":">>, sections.prepends[i].v)
              IN  sections.prepends[i].v # <<>> =>
                     \E j \in 1..Len(script) :
                        script[j] = IF x \in DOMAIN shell_env
                                    THEN Bash_set_env(x, J \o <<":">> \o shell_env[x])
                                    ELSE Bash_set_env(x, J)

\* C7: when module_load or module_unload ends, every variable of the engine
\* process's environment is as the process inherited it.
C7_EngineLeavesOwnEnvironment ==
    call \in {"module_load", "module_unload"} => os_environ = shell_env

C9_SaveIsOneTransaction ==
    (call \in SaveCalls /\ outcome = "raised" /\ schema_file # <<>>) =>
        module_file = <<IF module_type = "TCL"
                        THEN save_as_tcl(schema_file[1])
                        ELSE save_as_bash(schema_file[1])>>

\* C10: on a variable with no prepends entry, prepend_env(x, [a]) then
\* prepend_env(x, [b]) leaves prepends[x] = [a, b], and the TCL render has
\* the prepend-path lines of x in that order; a written TCL modulefile has,
\* for every variable, its prepend-path lines in the order of the fragments.
C10_PrependKeepsOrder ==
    /\ \A x \in EnvNames :
          ~HasKey(sections.prepends, x) =>
             LET s2 == prepend_env(prepend_env(sections, x, [list |-> <<<<"a">>>>]),
                                   x, [list |-> <<<<"b">>>>])
             IN  /\ Get(s2.prepends, x) = <<<<"a">>, <<"b">>>>
                 /\ PrependPathsOf(save_as_tcl(s2), x)
                       = <<Line("prepend-path", x, <<"a">>),
                           Line("prepend-path", x, <<"b">>)>>
    /\ (module_type = "TCL" /\ module_file # <<>> /\ schema_file # <<>>) =>
          \A x \in KeySet(schema_file[1].prepends) :
             PrependPathsOf(module_file[1], x)
                = FragLines(x, Get(schema_file[1].prepends, x))

\* C10's case has happened: two prepend_env calls built [a, b] for FOO, and
\* a save rendered it.
C10_Witness ==
    /\ HasKey(sections.prepends, "FOO")
    /\ Get(sections.prepends, "FOO") = <<<<"a">>, <<"b">>>>
    /\ module_file # <<>>
    /\ PrependPathsOf(module_file[1], "FOO")
          = <<Line("prepend-path", "FOO", <<"a">>),
              Line("prepend-path", "FOO", <<"b">>)>>

\* new is old with exactly one occurrence of f taken out, the rest in order
RemovedOne(old, new, f) ==
    \E i \in 1..Len(old) :
        /\ old[i] = f
        /\ new = SubSeq(old, 1, i - 1) \o SubSeq(old, i + 1, Len(old))

\* C11: pop_prepend(x, f) takes exactly one occurrence of f out of
\* prepends[x] and keeps the other fragments, and everything else, as they
\* were (from [a, b], popping a leaves [b]); when x has no prepends entry or
\* f is not in it, the sections are unchanged and a message is printed; in
\* both cases the call returns.
C11_PopPrependRemovesOne ==
    /\ \A x \in EnvNames \cup {"PATH"}, f \in Frags \cup {BinDir} :
          LET r == pop_prepend(sections, x, f)
          IN  IF HasKey(sections.prepends, x)
                 /\ InList(Get(sections.prepends, x), f)
              THEN /\ ~r.printed
                   /\ RemovedOne(Get(sections.prepends, x),
                                 Get(r.sections.prepends, x), f)
                   /\ r.sections = [sections EXCEPT !.prepends =
                          Put(@, x, Get(r.sections.prepends, x))]
              ELSE r.printed /\ r.sections = sections
    /\ LET s == prepend_env(rm_env(sections, "FOO"), "FOO",
                            [list |-> <<<<"a">>, <<"b">>>>])
       IN  Get(pop_prepend(s, "FOO", <<"a">>).sections.prepends, "FOO")
              = <<<<"b">>>>
    /\ call \in {"pop_prepend", "pop_prepend: printed"} => outcome = "returned"

\* C11's case has happened: a pop_prepend took a fragment out of FOO's entry
\* and left [b].
C11_Witness ==
    /\ call = "pop_prepend"
    /\ HasKey(sections.prepends, "FOO")
    /\ Get(sections.prepends, "FOO") = <<<<"b">>>>

\* d1 and d2 agree on every key other than x
SameButFor(d1, d2, x) ==
    /\ KeySet(d1) \ {x} = KeySet(d2) \ {x}
    /\ \A key \in KeySet(d1) \ {x} : Get(d1, key) = Get(d2, key)

\* C12: from any state, set_env(x, v) leaves setenvs[x] = v and x out of
\* prepends, and changes no other key of setenvs or prepends; after a
\* set_env call the variable set is in setenvs and not in prepends.
C12_SetEnvWins ==
    /\ \A x \in EnvNames \cup {"PATH"}, v \in EnvValues :
          LET s2 == set_env(sections, x, v)
          IN  /\ HasKey(s2.setenvs, x)
              /\ Get(s2.setenvs, x) = v
              /\ ~HasKey(s2.prepends, x)
              /\ SameButFor(sections.setenvs, s2.setenvs, x)
              /\ SameButFor(sections.prepends, s2.prepends, x)
    /\ call = "set_env" =>
          \E x \in EnvNames :
              /\ HasKey(sections.setenvs, x)
              /\ Get(sections.setenvs, x) \in EnvValues
              /\ ~HasKey(sections.prepends, x)

\* C12's case has happened: set_env gave FOO the value w, and FOO has no
\* prepends entry.
C12_Witness ==
    /\ call = "set_env"
    /\ HasKey(sections.setenvs, "FOO")
    /\ Get(sections.setenvs, "FOO") = <<"w">>
    /\ ~HasKey(sections.prepends, "FOO")

\* C13: an append_env call on sections built from the skeleton returns, and
\* leaves an appends section whose entry for the variable is the given
\* fragments.
C13_AppendEnvInitializes ==
    call = "append_env" =>
        /\ outcome = "returned"
        /\ "appends" \in DOMAIN sections
        /\ \E x \in EnvNames, f \in Frags :
              /\ HasKey(sections.appends, x)
              /\ Get(sections.appends, x) = <<f>>

Range(seq) == {seq[i] : i \in 1..Len(seq)}

NoDups(seq) == \A i, j \in 1..Len(seq) : i # j => seq[i] # seq[j]

FirstIndex(seq, x) == CHOOSE i \in 1..Len(seq) :
                          seq[i] = x /\ \A h \in 1..(i - 1) : seq[h] # x

\* after is before with the names of arg not yet in it added at the end,
\* each once, in the order arg first gives them
IsOrderedUnion(before, arg, after) ==
    /\ NoDups(after)
    /\ Len(after) >= Len(before)
    /\ SubSeq(after, 1, Len(before)) = before
    /\ Range(after) = Range(before) \cup Range(arg)
    /\ \A i, j \in (Len(before) + 1)..Len(after) :
          i < j => FirstIndex(arg, after[i]) < FirstIndex(arg, after[j])

\* after is before without the names of arg, the rest in order
IsOrderedDifference(before, arg, after) ==
    LET keep(d) == d \notin Range(arg) IN after = SelectSeq(before, keep)

\* C14: ls_deps never lists a name twice; add_deps adds the names not yet
\* present at the end, in the order given, and leaves the present ones where
\* they are; pop_deps takes the named ones out and keeps the order of the
\* rest; add_deps(['d1', 'd2']) then pop_deps(['d1']) on no dependencies
\* lists exactly ['d2'].
C14_DepsOrderedSet ==
    /\ NoDups(ls_deps(sections))
    /\ \A d \in DepArgs :
          /\ IsOrderedUnion(ls_deps(sections), AsList(d),
                            ls_deps(add_deps(sections, d)))
          /\ IsOrderedDifference(ls_deps(sections), AsList(d),
                                 ls_deps(pop_deps(sections, d)))
          /\ Range(AsList(d)) \subseteq Range(ls_deps(sections))
                => add_deps(sections, d) = sections
          /\ Range(AsList(d)) \cap Range(ls_deps(sections)) = {}
                => pop_deps(sections, d) = sections
    /\ ls_deps(sections) = <<>> =>
          ls_deps(pop_deps(add_deps(sections, [list |-> <<"d1", "d2">>]),
                           [list |-> <<"d1">>])) = <<"d2">>

\* C14's case has happened: after adds of d1 and d2, a pop_deps left d2 alone.
C14_Witness ==
    /\ call = "pop_deps"
    /\ outcome = "returned"
    /\ ls_deps(sections) = <<"d2">>

C16_NonBashRefuses ==
    [][module_type # "BASH" /\ call' \in {"module_load", "module_unload"} =>
          /\ get_script_loader_printed(module_type) # ""
          /\ outcome' = "none"
          /\ script' = <<>>
          /\ os_environ' = shell_env
          /\ UNCHANGED <<shell_env, sections, schema_file, module_file>>]_vars

\* C16's case has happened: under TCL a module_load of a loaded package with
\* something to emit came back with nothing.
C16_Witness ==
    /\ module_type = "TCL"
    /\ call = "module_load"
    /\ outcome = "none"
    /\ is_loaded(shell_env)
    /\ Len(sections.setenvs) > 0
    /\ script = <<>>

\* the prepends entries that have at least one fragment, in order
NonEmptyPrepends(sec) ==
    LET some(e) == e.v # <<>> IN SelectSeq(sec.prepends, some)

\* C17: the script a module_load returns is, in this order, one export per
\* setenvs entry, one export per prepends entry with at least one fragment
\* (an entry with none emits nothing), and one last line that exports
\* SCSPKG_<name>_LOADED with a non-empty value; no other line names the flag.
C17_LoadLineOrder ==
    call = "module_load" /\ outcome = "returned" =>
        LET n == Len(sections.setenvs)
            pre == NonEmptyPrepends(sections)
            m == Len(pre)
        IN  /\ Len(script) = n + m + 1
            /\ \A i \in 1..n :
                  script[i] = Line("export", sections.setenvs[i].k,
                                   sections.setenvs[i].v)
            /\ \A j \in 1..m :
                  /\ script[n + j].cmd = "export"
                  /\ script[n + j].key = pre[j].k
                  /\ HasPrefix(script[n + j].val, str_join(<<":">>, pre[j].v))
            /\ script[n + m + 1].cmd = "export"
            /\ script[n + m + 1].key = mod_load_name
            /\ script[n + m + 1].val # <<>>
            /\ \A i \in 1..(n + m) : script[i].key # mod_load_name

\* C17's case has happened: a module_load returned lines for a setenvs entry,
\* for a prepends entry with fragments, and skipped an entry with none.
C17_Witness ==
    /\ call = "module_load" /\ outcome = "returned"
    /\ Len(sections.setenvs) > 0
    /\ Len(NonEmptyPrepends(sections)) > 0
    /\ Len(NonEmptyPrepends(sections)) < Len(sections.prepends)
    /\ Len(script) = Len(sections.setenvs) + Len(NonEmptyPrepends(sections)) + 1

\* C18: under BASH the package counts as loaded exactly when
\* SCSPKG_<name>_LOADED is present in the environment of the call, whatever
\* its value: with the flag present, module_load exits as already loaded and
\* module_unload does not exit as not loaded; with it absent, the reverse.
C18_LoadedIffFlagPresent ==
    module_type = "BASH" =>
        /\ call = "module_load" =>
              (outcome = "exit" <=> mod_load_name \in DOMAIN shell_env)
        /\ call = "module_unload" =>
              (outcome = "exit" <=> mod_load_name \notin DOMAIN shell_env)

\* the accessor calls, by the name the call is recorded under, with and
\* without a printed message
CallOf(op) == {op, op \o ": printed"}

\* C19: a pop_deps when there is no dependency, a pop_prepend on a variable
\* with no prepends entry or no fragment, and a rm_env of a variable in
\* neither setenvs nor prepends each print a warning, leave the sections as
\* they were and return normally.
C19_MissingEntryReported ==
    [][/\ \A n \in EnvNames :
            /\ call' \in CallOf("rm_env")
            /\ ~HasKey(sections.setenvs, n)
            /\ ~HasKey(sections.prepends, n)
            => /\ call' = "rm_env: printed"
               /\ outcome' = "returned"
               /\ sections' = sections
       /\ \A n \in EnvNames :
            /\ call' \in CallOf("pop_prepend")
            /\ \/ ~HasKey(sections.prepends, n)
               \/ Get(sections.prepends, n) = <<>>
            => /\ call' = "pop_prepend: printed"
               /\ outcome' = "returned"
               /\ sections' = sections
       /\ /\ call' \in CallOf("pop_deps")
          /\ sections.deps = <<>>
          => /\ call' = "pop_deps: printed"
             /\ outcome' = "returned"
             /\ sections' = sections]_vars

\* the calls of set_env, prepend_env, rm_env, pop_prepend, add_deps, pop_deps
AccessorCalls ==
    CallOf("set_env") \cup CallOf("prepend_env") \cup CallOf("rm_env")
        \cup CallOf("pop_prepend") \cup CallOf("add_deps") \cup CallOf("pop_deps")

\* C20: set_env, prepend_env, rm_env, pop_prepend, add_deps and pop_deps
\* change the sections in memory only: the persisted document and the
\* modulefile are after the call what they were before it.
C20_AccessorsLeaveFiles ==
    [][call' \in AccessorCalls =>
          UNCHANGED <<schema_file, module_file>>]_vars

====
